---- MODULE Spec2Model ----
(***************************************************************************)
(* A model of the foodgram backend: the relational store (Recipe,          *)
(* IngredientInRecipe, recipe-tag links, Favorite, ShoppingCart,           *)
(* Subscription) and the request handlers of api/views.py with the         *)
(* validation and persistence code of api/serializers.py.                  *)
(***************************************************************************)
EXTENDS Integers, Sequences, FiniteSets, Bags, TLC

(***************************************************************************)
(* Program constants                                                       *)
(***************************************************************************)
MIN_VALUE == 1
MAX_VALUE == 32000

HTTP_200_OK == 200
HTTP_201_CREATED == 201
HTTP_204_NO_CONTENT == 204
HTTP_400_BAD_REQUEST == 400
HTTP_401_UNAUTHORIZED == 401
HTTP_403_FORBIDDEN == 403
HTTP_404_NOT_FOUND == 404
HTTP_500_INTERNAL_SERVER_ERROR == 500

(***************************************************************************)
(* Bounds of the model                                                     *)
(***************************************************************************)
\* at most this many Recipe rows are ever inserted (primary keys 1..MaxRecipes)
MaxRecipes == 2
\* longest ingredients / tags list of a submitted payload
MaxLen == 2

(***************************************************************************)
(* Reference data: users, ingredients and tags are fixed tables here.      *)
(***************************************************************************)
Users == {"u1", "u2"}
Anonymous == "anon"
Callers == Users \cup {Anonymous}

\* the User row of an account: email and username are unique columns
UserRow(u) == [email |-> u \o "@foodgram.example", username |-> u]

IngredientIds == {1, 2, 3}
\* Ingredient has no uniqueness constraint on (name, measurement_unit):
\* rows 1 and 3 carry the same name and unit.
Ingredient(i) ==
    CASE i = 1 -> [name |-> "flour", measurement_unit |-> "g"]
      [] i = 2 -> [name |-> "eggs", measurement_unit |-> "pcs"]
      [] i = 3 -> [name |-> "flour", measurement_unit |-> "g"]

TagIds == {1, 2}
Tag(t) ==
    CASE t = 1 -> [name |-> "Breakfast", slug |-> "breakfast"]
      [] t = 2 -> [name |-> "Lunch", slug |-> "lunch"]

RecipeIds == 1..MaxRecipes

(***************************************************************************)
(* State                                                                   *)
(***************************************************************************)
VARIABLES
    recipe,                \* Recipe table: pk -> [author, cooking_time]
    recipe_tags,           \* Recipe.tags link table: set of [recipe, tag]
    ingredient_in_recipe,  \* IngredientInRecipe: set of [recipe, ingredient, amount]
    favorite,              \* Favorite: bag of [user, recipe]
    shopping_cart,         \* ShoppingCart: bag of [user, recipe]
    subscription,          \* Subscription: bag of [user, author]
    users_user,            \* User table: set of [email, username]
    next_pk,               \* next primary key of the Recipe table
    request,               \* the request being served, or NoRequest
    response,              \* the response not yet delivered, or NoResponse
    thread                 \* concurrent requests: worker -> request, position

db == <<recipe, recipe_tags, ingredient_in_recipe, favorite, shopping_cart,
        subscription, users_user, next_pk>>
vars == <<recipe, recipe_tags, ingredient_in_recipe, favorite, shopping_cart,
          subscription, users_user, next_pk, request, response, thread>>

Range(s) == {s[k] : k \in DOMAIN s}
SeqsUpTo(S, n) == UNION {[1..k -> S] : k \in 0..n}

(***************************************************************************)
(* Request payloads of a recipe write.  keys is the set of keys present in *)
(* the submitted JSON object; a field whose key is absent holds a neutral  *)
(* value that no handler reads.                                            *)
(***************************************************************************)
FieldNames == {"ingredients", "tags", "cooking_time"}

Data(keys, ingredients, tags, cooking_time) ==
    [keys |-> keys,
     ingredients |-> IF "ingredients" \in keys THEN ingredients ELSE <<>>,
     tags |-> IF "tags" \in keys THEN tags ELSE <<>>,
     cooking_time |-> IF "cooking_time" \in keys THEN cooking_time ELSE 0]

NoData == Data({}, <<>>, <<>>, 0)

(***************************************************************************)
(* Validation (RecipeWriteSerializer.is_valid)                             *)
(***************************************************************************)
\* an IntegerField that lost its max_value
IntegerFieldValid_NoMaxValue(value) == value >= MIN_VALUE

\* IntegerField(min_value=MIN_VALUE, max_value=MAX_VALUE)
IntegerFieldValid(value) == value >= MIN_VALUE /\ value <= MAX_VALUE

\* IngredientWriteSerializer: id must name an Ingredient row, amount in range
IngredientWriteValid(item) ==
    /\ item.id \in IngredientIds
    /\ IntegerFieldValid(item.amount)
    /\ ~(item.amount < MIN_VALUE)

HasDuplicates(s) == \E i, j \in DOMAIN s : i < j /\ s[i] = s[j]

\* validate_ingredients without the loop over ingredients_set
validate_ingredients_NoDuplicateCheck(value) == value # <<>>

\* validate_ingredients: non-empty, no ingredient twice
validate_ingredients(value) ==
    /\ value # <<>>
    /\ ~HasDuplicates([k \in DOMAIN value |-> value[k].id])

\* validate_tags without the check of an empty list
validate_tags_AllowsEmpty(value) == Cardinality(Range(value)) = Len(value)

\* validate_tags without the comparison of len(set(value)) with len(value)
validate_tags_NoDuplicateCheck(value) == value # <<>>

\* validate_tags: non-empty, no tag twice
validate_tags(value) ==
    /\ value # <<>>
    /\ Cardinality(Range(value)) = Len(value)

\* The set of fields in error after the per-field pass of to_internal_value.
FieldErrors(data, partial) ==
    {f \in FieldNames : f \notin data.keys /\ ~partial}
    \cup {f \in {"ingredients"} :
            /\ f \in data.keys
            /\ \/ \E k \in DOMAIN data.ingredients :
                    ~IngredientWriteValid(data.ingredients[k])
               \/ ~validate_ingredients(data.ingredients)}
    \cup {f \in {"tags"} :
            /\ f \in data.keys
            /\ \/ \E k \in DOMAIN data.tags : data.tags[k] \notin TagIds
               \/ ~validate_tags(data.tags)}
    \cup {f \in {"cooking_time"} :
            /\ f \in data.keys
            /\ ~IntegerFieldValid(data.cooking_time)}

\* RecipeWriteSerializer.validate: the object-level check, run on the
\* validated fields also for a partial update.
validate(data) ==
    IF "ingredients" \notin data.keys THEN {"ingredients"}
    ELSE IF "tags" \notin data.keys THEN {"tags"}
    ELSE {}

\* serializer.is_valid(raise_exception=True): the errors that make it raise
Errors(data, partial) ==
    IF FieldErrors(data, partial) # {} THEN FieldErrors(data, partial)
    ELSE validate(data)

(***************************************************************************)
(* Store statements                                                        *)
(***************************************************************************)
\* recipe.tags.set(tags_data)
TagsSet(links, pk, tags_data) ==
    {l \in links : l.recipe # pk}
    \cup {[recipe |-> pk, tag |-> t] : t \in Range(tags_data)}

\* create_ingredients whose loop stops one item early
IngredientRows_SkipsLast(pk, ingredients_data) ==
    {[recipe |-> pk,
      ingredient |-> ingredients_data[k].id,
      amount |-> ingredients_data[k].amount] :
        k \in 1..(Len(ingredients_data) - 1)}

\* the rows create_ingredients builds for bulk_create
IngredientRows(pk, ingredients_data) ==
    {[recipe |-> pk,
      ingredient |-> ingredients_data[k].id,
      amount |-> ingredients_data[k].amount] : k \in DOMAIN ingredients_data}

\* unique_together = ('ingredient', 'recipe'): bulk_create raises
\* IntegrityError when a new row repeats a pair of the table or of the batch
BulkCreateRaises(rows, pk, ingredients_data) ==
    \/ HasDuplicates([k \in DOMAIN ingredients_data |-> ingredients_data[k].id])
    \/ \E r \in rows, n \in IngredientRows(pk, ingredients_data) :
          r.recipe = n.recipe /\ r.ingredient = n.ingredient

\* RecipeWriteSerializer.create_ingredients
create_ingredients(rows, pk, ingredients_data) ==
    IF BulkCreateRaises(rows, pk, ingredients_data) THEN rows
    ELSE rows \cup IngredientRows(pk, ingredients_data)

\* an update that does not clear the old rows
IngredientsClear_KeepsRows(rows, pk) == rows

\* instance.ingredients.clear()
IngredientsClear(rows, pk) == {r \in rows : r.recipe # pk}

\* Recipe.objects.create(**validated_data), validated_data holding author
RecipeInsert(table, pk, author, data) ==
    table @@ (pk :> [author |-> author, cooking_time |-> data.cooking_time])

\* for attr, value in validated_data.items(): setattr(...); instance.save()
RecipeSave(table, pk, data) ==
    IF "cooking_time" \in data.keys
    THEN [table EXCEPT ![pk].cooking_time = data.cooking_time]
    ELSE table

\* on_delete=CASCADE from Recipe
RemoveRecipe(bag, pk) ==
    [e \in {x \in BagToSet(bag) : x.recipe # pk} |-> bag[e]]

(***************************************************************************)
(* RecipeReadSerializer                                                    *)
(***************************************************************************)
RecipeRead(table, links, rows, favs, cart, user, pk) ==
    [id |-> pk,
     author |-> table[pk].author,
     ingredients |->
        {[id |-> r.ingredient,
          name |-> Ingredient(r.ingredient).name,
          measurement_unit |-> Ingredient(r.ingredient).measurement_unit,
          amount |-> r.amount] : r \in {x \in rows : x.recipe = pk}},
     tags |-> {l.tag : l \in {x \in links : x.recipe = pk}},
     is_favorited |->
        user # Anonymous /\ BagIn([user |-> user, recipe |-> pk], favs),
     is_in_shopping_cart |->
        user # Anonymous /\ BagIn([user |-> user, recipe |-> pk], cart),
     cooking_time |-> table[pk].cooking_time]

NoBody == [id |-> 0]
NoneValue == "<None>"
\* the query string of a listing; tags holds the values of the repeated tags
\* parameter, the other parameters hold NoneValue when absent
Query(is_favorited, is_in_shopping_cart, author, tags) ==
    [is_favorited |-> is_favorited,
     is_in_shopping_cart |-> is_in_shopping_cart,
     author |-> author, tags |-> tags]

NoQuery == Query(NoneValue, NoneValue, NoneValue, <<>>)

\* An HTTP request: the route (op), the authenticated caller, the URL
\* argument (pk of a recipe, or id of a user), the JSON body and the
\* query string.
Request(op, user, pk, id, data, partial, query) ==
    [op |-> op, user |-> user, pk |-> pk, id |-> id, data |-> data,
     partial |-> partial, query |-> query]

NoRequest == Request("none", Anonymous, 0, Anonymous, NoData, FALSE, NoQuery)

Response(status, errors, body) ==
    [request |-> request, status |-> status, errors |-> errors, body |-> body]

NoResponse ==
    [request |-> NoRequest, status |-> 0, errors |-> {}, body |-> NoBody]

\* the handler returns: the request is served
Answered == request' = NoRequest /\ UNCHANGED thread

\* return Response(...): the handler ends and db is left as it was
Reject(status, errors) ==
    /\ response' = Response(status, errors, NoBody)
    /\ Answered
    /\ UNCHANGED db

(***************************************************************************)
(* Recipe handlers                                                         *)
(***************************************************************************)
\* a permission that lets every authenticated caller through
IsAuthor_Everyone(user, obj) == TRUE

\* IsAuthor.has_object_permission
IsAuthor(user, obj) == obj.author = user

\* RecipeViewSet.create: POST /recipes/
RecipeCreate ==
    /\ request.op = "create"
    /\ LET user == request.user
           data == request.data
           errors == Errors(data, FALSE)
           pk == next_pk
           raises == BulkCreateRaises(ingredient_in_recipe, pk,
                                      data.ingredients)
       IN
       IF user = Anonymous THEN Reject(HTTP_401_UNAUTHORIZED, {})
       ELSE IF errors # {} THEN Reject(HTTP_400_BAD_REQUEST, errors)
       ELSE /\ next_pk' = next_pk + 1
            /\ recipe' = RecipeInsert(recipe, pk, user, data)
            /\ recipe_tags' = TagsSet(recipe_tags, pk, data.tags)
            /\ ingredient_in_recipe' =
                 create_ingredients(ingredient_in_recipe, pk, data.ingredients)
            /\ UNCHANGED <<favorite, shopping_cart, subscription,
                           users_user>>
            /\ Answered
            /\ response' =
                 IF raises
                 THEN Response(HTTP_500_INTERNAL_SERVER_ERROR, {}, NoBody)
                 ELSE Response(HTTP_201_CREATED, {},
                               RecipeRead(recipe', recipe_tags',
                                          ingredient_in_recipe', favorite,
                                          shopping_cart, user, pk))

\* RecipeWriteSerializer.update, applied to the tables
UpdatedTags(links, pk, data) ==
    IF "tags" \in data.keys THEN TagsSet(links, pk, data.tags) ELSE links

UpdatedIngredients(rows, pk, data) ==
    IF "ingredients" \in data.keys
    THEN create_ingredients(IngredientsClear(rows, pk), pk, data.ingredients)
    ELSE rows

\* RecipeViewSet.update / partial_update: PUT, PATCH /recipes/{pk}/
RecipeUpdate ==
    /\ request.op = "update"
    /\ LET user == request.user
           pk == request.pk
           data == request.data
           errors == Errors(data, request.partial)
           raises ==
               /\ "ingredients" \in data.keys
               /\ BulkCreateRaises(IngredientsClear(ingredient_in_recipe, pk),
                                   pk, data.ingredients)
       IN
       IF user = Anonymous THEN Reject(HTTP_401_UNAUTHORIZED, {})
       ELSE IF pk \notin DOMAIN recipe THEN Reject(HTTP_404_NOT_FOUND, {})
       ELSE IF ~IsAuthor(user, recipe[pk])
       THEN Reject(HTTP_403_FORBIDDEN, {})
       ELSE IF errors # {} THEN Reject(HTTP_400_BAD_REQUEST, errors)
       ELSE /\ recipe' = RecipeSave(recipe, pk, data)
            /\ recipe_tags' = UpdatedTags(recipe_tags, pk, data)
            /\ ingredient_in_recipe' =
                 UpdatedIngredients(ingredient_in_recipe, pk, data)
            /\ UNCHANGED <<favorite, shopping_cart, subscription, next_pk,
                           users_user>>
            /\ Answered
            /\ response' =
                 IF raises
                 THEN Response(HTTP_500_INTERNAL_SERVER_ERROR, {}, NoBody)
                 ELSE Response(HTTP_200_OK, {},
                               RecipeRead(recipe', recipe_tags',
                                          ingredient_in_recipe', favorite,
                                          shopping_cart, user, pk))

\* RecipeViewSet.destroy: DELETE /recipes/{pk}/
RecipeDestroy ==
    /\ request.op = "destroy"
    /\ LET user == request.user
           pk == request.pk
       IN
       IF user = Anonymous THEN Reject(HTTP_401_UNAUTHORIZED, {})
       ELSE IF pk \notin DOMAIN recipe THEN Reject(HTTP_404_NOT_FOUND, {})
       ELSE IF ~IsAuthor(user, recipe[pk])
       THEN Reject(HTTP_403_FORBIDDEN, {})
       ELSE /\ recipe' = [p \in DOMAIN recipe \ {pk} |-> recipe[p]]
            /\ recipe_tags' = {l \in recipe_tags : l.recipe # pk}
            /\ ingredient_in_recipe' =
                 IngredientsClear(ingredient_in_recipe, pk)
            /\ favorite' = RemoveRecipe(favorite, pk)
            /\ shopping_cart' = RemoveRecipe(shopping_cart, pk)
            /\ UNCHANGED <<subscription, next_pk,
                           users_user>>
            /\ Answered
            /\ response' = Response(HTTP_204_NO_CONTENT, {}, NoBody)

(***************************************************************************)
(* Relation tables: Favorite, ShoppingCart, Subscription                   *)
(***************************************************************************)
\* the row a request names: (user, recipe) or (user, author)
RecipeRow(req) == [user |-> req.user, recipe |-> req.pk]
AuthorRow(req) == [user |-> req.user, author |-> req.id]

\* a handler without its existence pre-check
Exists_NoCheck(table, row) == FALSE

\* Model.objects.filter(...).exists()
Exists(table, row) == BagIn(row, table)

\* a table without its unique_together constraint
IntegrityError_NoConstraint(table, row) == FALSE

\* unique_together: the store refuses a second row of the same pair
IntegrityError(table, row) == BagIn(row, table)

\* Model.objects.create(...)
ObjectsCreate(table, row) ==
    IF IntegrityError(table, row) THEN table
    ELSE table (+) SetToBag({row})

\* a delete that filters on the first column of the pair only
QuerysetDelete_ByUserOnly(table, row) ==
    [e \in {x \in BagToSet(table) : x.user # row.user} |-> table[e]]

\* Model.objects.filter(...).delete(): every row of the pair goes
QuerysetDelete(table, row) ==
    [e \in BagToSet(table) \ {row} |-> table[e]]

\* RecipeViewSet.add_to_favorite: POST /recipes/{pk}/favorite/
add_to_favorite ==
    /\ request.op = "add_to_favorite"
    /\ LET user == request.user
           row == [user |-> request.user, recipe |-> request.pk]
       IN
       IF user = Anonymous THEN Reject(HTTP_401_UNAUTHORIZED, {})
       ELSE IF request.pk \notin DOMAIN recipe
       THEN Reject(HTTP_404_NOT_FOUND, {})
       ELSE IF Exists(favorite, row)
       THEN Reject(HTTP_400_BAD_REQUEST, {"errors"})
       ELSE /\ favorite' = ObjectsCreate(favorite, row)
            /\ UNCHANGED <<recipe, recipe_tags, ingredient_in_recipe,
                           shopping_cart, subscription, next_pk,
                           users_user>>
            /\ Answered
            /\ response' =
                 IF IntegrityError(favorite, row)
                 THEN Response(HTTP_500_INTERNAL_SERVER_ERROR, {}, NoBody)
                 ELSE Response(HTTP_201_CREATED, {}, NoBody)

\* RecipeViewSet.remove_from_favorite: DELETE /recipes/{pk}/favorite/
remove_from_favorite ==
    /\ request.op = "remove_from_favorite"
    /\ LET user == request.user
           row == [user |-> request.user, recipe |-> request.pk]
       IN
       IF user = Anonymous THEN Reject(HTTP_401_UNAUTHORIZED, {})
       ELSE IF request.pk \notin DOMAIN recipe
       THEN Reject(HTTP_404_NOT_FOUND, {})
       ELSE IF ~Exists(favorite, row)
       THEN Reject(HTTP_400_BAD_REQUEST, {"errors"})
       ELSE /\ favorite' = QuerysetDelete(favorite, row)
            /\ UNCHANGED <<recipe, recipe_tags, ingredient_in_recipe,
                           shopping_cart, subscription, next_pk,
                           users_user>>
            /\ Answered
            /\ response' = Response(HTTP_204_NO_CONTENT, {}, NoBody)

\* RecipeViewSet.add_to_shopping_cart: POST /recipes/{pk}/shopping_cart/
add_to_shopping_cart ==
    /\ request.op = "add_to_shopping_cart"
    /\ LET user == request.user
           row == [user |-> request.user, recipe |-> request.pk]
       IN
       IF user = Anonymous THEN Reject(HTTP_401_UNAUTHORIZED, {})
       ELSE IF request.pk \notin DOMAIN recipe
       THEN Reject(HTTP_404_NOT_FOUND, {})
       ELSE IF Exists(shopping_cart, row)
       THEN Reject(HTTP_400_BAD_REQUEST, {"errors"})
       ELSE /\ shopping_cart' = ObjectsCreate(shopping_cart, row)
            /\ UNCHANGED <<recipe, recipe_tags, ingredient_in_recipe,
                           favorite, subscription, next_pk,
                           users_user>>
            /\ Answered
            /\ response' =
                 IF IntegrityError(shopping_cart, row)
                 THEN Response(HTTP_500_INTERNAL_SERVER_ERROR, {}, NoBody)
                 ELSE Response(HTTP_201_CREATED, {}, NoBody)

\* RecipeViewSet.remove_from_shopping_cart: DELETE /recipes/{pk}/shopping_cart/
remove_from_shopping_cart ==
    /\ request.op = "remove_from_shopping_cart"
    /\ LET user == request.user
           row == [user |-> request.user, recipe |-> request.pk]
       IN
       IF user = Anonymous THEN Reject(HTTP_401_UNAUTHORIZED, {})
       ELSE IF request.pk \notin DOMAIN recipe
       THEN Reject(HTTP_404_NOT_FOUND, {})
       ELSE IF ~Exists(shopping_cart, row)
       THEN Reject(HTTP_400_BAD_REQUEST, {"errors"})
       ELSE /\ shopping_cart' = QuerysetDelete(shopping_cart, row)
            /\ UNCHANGED <<recipe, recipe_tags, ingredient_in_recipe,
                           favorite, subscription, next_pk,
                           users_user>>
            /\ Answered
            /\ response' = Response(HTTP_204_NO_CONTENT, {}, NoBody)

\* subscribe without the self-subscription check
IsSelf_NoCheck(user, author) == FALSE

\* the check of subscribe that refuses the caller as the target
IsSelf(user, author) == user = author

\* CustomUserViewSet.subscribe: POST /users/{id}/subscribe/
subscribe ==
    /\ request.op = "subscribe"
    /\ LET user == request.user
           author == request.id
           row == [user |-> request.user, author |-> request.id]
       IN
       IF user = Anonymous THEN Reject(HTTP_401_UNAUTHORIZED, {})
       ELSE IF author \notin Users THEN Reject(HTTP_404_NOT_FOUND, {})
       ELSE IF IsSelf(user, author)
       THEN Reject(HTTP_400_BAD_REQUEST, {"errors"})
       ELSE IF Exists(subscription, row)
       THEN Reject(HTTP_400_BAD_REQUEST, {"errors"})
       ELSE /\ subscription' = ObjectsCreate(subscription, row)
            /\ UNCHANGED <<recipe, recipe_tags, ingredient_in_recipe,
                           favorite, shopping_cart, next_pk,
                           users_user>>
            /\ Answered
            /\ response' =
                 IF IntegrityError(subscription, row)
                 THEN Response(HTTP_500_INTERNAL_SERVER_ERROR, {}, NoBody)
                 ELSE Response(HTTP_201_CREATED, {}, NoBody)

\* CustomUserViewSet.unsubscribe: DELETE /users/{id}/subscribe/
unsubscribe ==
    /\ request.op = "unsubscribe"
    /\ LET user == request.user
           author == request.id
           row == [user |-> request.user, author |-> request.id]
       IN
       IF user = Anonymous THEN Reject(HTTP_401_UNAUTHORIZED, {})
       ELSE IF author \notin Users THEN Reject(HTTP_404_NOT_FOUND, {})
       ELSE IF ~Exists(subscription, row)
       THEN Reject(HTTP_400_BAD_REQUEST, {"errors"})
       ELSE /\ subscription' = QuerysetDelete(subscription, row)
            /\ UNCHANGED <<recipe, recipe_tags, ingredient_in_recipe,
                           favorite, shopping_cart, next_pk,
                           users_user>>
            /\ Answered
            /\ response' = Response(HTTP_204_NO_CONTENT, {}, NoBody)

(***************************************************************************)
(* Registration: CustomUserViewSet.create with UserCreateSerializer        *)
(***************************************************************************)
UserFieldNames == {"email", "username", "first_name", "last_name", "password"}

\* the payload of POST /users/: the keys present, and the values of the two
\* unique fields
UserData(keys, email, username) ==
    [keys |-> keys,
     email |-> IF "email" \in keys THEN email ELSE "",
     username |-> IF "username" \in keys THEN username ELSE ""]

\* UserCreateSerializer.is_valid: every field is required, email and
\* username must not be those of a row of the table
UserErrors(data) ==
    {f \in UserFieldNames : f \notin data.keys}
    \cup {f \in {"email"} :
            f \in data.keys /\ \E row \in users_user : row.email = data.email}
    \cup {f \in {"username"} :
            /\ f \in data.keys
            /\ \E row \in users_user : row.username = data.username}

\* CustomUserViewSet.create: POST /users/, open to every caller.  After
\* is_valid the handler builds the response from serializer.data; it calls
\* neither perform_create nor serializer.save().
UserCreate ==
    /\ request.op = "user_create"
    /\ IF UserErrors(request.data) # {}
       THEN Reject(HTTP_400_BAD_REQUEST, UserErrors(request.data))
       ELSE /\ response' = Response(HTTP_201_CREATED, {},
                              [email |-> request.data.email,
                               username |-> request.data.username])
            /\ Answered
            /\ UNCHANGED db

(***************************************************************************)
(* Listing recipes: RecipeViewSet.get_queryset, then RecipeFilter          *)
(***************************************************************************)
\* the Exists(...) annotation of get_queryset
Annotated(table, user, pk) == BagIn([user |-> user, recipe |-> pk], table)

\* get_queryset without the user.is_authenticated conditions
get_queryset_NoAuthCheck(user, query) ==
    LET all == DOMAIN recipe
        in_cart ==
            IF query.is_in_shopping_cart # NoneValue
            THEN {pk \in all :
                    Annotated(shopping_cart, user, pk)
                        = (query.is_in_shopping_cart = "1")}
            ELSE all
    IN  IF query.is_favorited # NoneValue
        THEN {pk \in in_cart :
                Annotated(favorite, user, pk) = (query.is_favorited = "1")}
        ELSE in_cart

\* RecipeViewSet.get_queryset
get_queryset(user, query) ==
    LET all == DOMAIN recipe
        in_cart ==
            IF query.is_in_shopping_cart # NoneValue /\ user # Anonymous
            THEN {pk \in all :
                    Annotated(shopping_cart, user, pk)
                        = (query.is_in_shopping_cart = "1")}
            ELSE all
    IN  IF query.is_favorited # NoneValue /\ user # Anonymous
        THEN {pk \in in_cart :
                Annotated(favorite, user, pk) = (query.is_favorited = "1")}
        ELSE in_cart

\* BooleanFilter: the widget reads the parameter as True, False or None,
\* and a filter whose value is None is skipped
BooleanFilterSkipped(param) == param \notin {"1", "0", "true", "false"}
BooleanFilterValue(param) == param \in {"1", "true"}

\* RecipeFilter.filter_is_favorited
filter_is_favorited(queryset, user, value) ==
    IF user # Anonymous /\ value
    THEN {pk \in queryset : \E f \in BagToSet(favorite) :
            f.recipe = pk /\ f.user = user}
    ELSE queryset

\* RecipeFilter.filter_is_in_shopping_cart
filter_is_in_shopping_cart(queryset, user, value) ==
    IF user # Anonymous /\ value
    THEN {pk \in queryset : \E c \in BagToSet(shopping_cart) :
            c.recipe = pk /\ c.user = user}
    ELSE queryset

\* author = NumberFilter(field_name='author__id')
filter_author(queryset, value) ==
    {pk \in queryset : recipe[pk].author = value}

\* ModelMultipleChoiceFilter(to_field_name='slug'): every value of the tags
\* parameter must be the slug of a Tag row, or the filterset is invalid
TagSlugs == {Tag(t).slug : t \in TagIds}
TagsFieldValid(slugs) == \A k \in DOMAIN slugs : slugs[k] \in TagSlugs

\* queryset.filter(Q(tags__slug=a) | Q(tags__slug=b) | ...): the join with
\* the link table yields a recipe once per link whose tag is among the slugs
TagsJoin(queryset, slugs) ==
    LET matches(pk) ==
            {l \in recipe_tags :
                l.recipe = pk /\ Tag(l.tag).slug \in Range(slugs)}
    IN  [pk \in {x \in queryset : matches(x) # {}} |->
            Cardinality(matches(pk))]

\* a filter built with distinct=False
Distinct_Off(rows) == rows

\* qs.distinct()
Distinct(rows) == SetToBag(BagToSet(rows))

\* tags = ModelMultipleChoiceFilter(field_name='tags__slug', ...): not
\* conjoined, distinct; no value, no filter
filter_tags(queryset, slugs) ==
    IF slugs = <<>> THEN SetToBag(queryset)
    ELSE Distinct(TagsJoin(queryset, slugs))

\* filter_queryset: the RecipeFilter filterset applied to get_queryset(),
\* filter by filter in the order of their declaration; the result holds a
\* recipe as many times as the query yields it
filter_queryset(user, query) ==
    LET qs == get_queryset(user, query)
        by_favorite ==
            IF BooleanFilterSkipped(query.is_favorited) THEN qs
            ELSE filter_is_favorited(
                    qs, user, BooleanFilterValue(query.is_favorited))
        by_cart ==
            IF BooleanFilterSkipped(query.is_in_shopping_cart)
            THEN by_favorite
            ELSE filter_is_in_shopping_cart(
                    by_favorite, user,
                    BooleanFilterValue(query.is_in_shopping_cart))
        by_author ==
            IF query.author = NoneValue THEN by_cart
            ELSE filter_author(by_cart, query.author)
    IN  filter_tags(by_author, query.tags)

\* RecipeViewSet.list: GET /recipes/; an invalid filterset is a 400
list ==
    /\ request.op = "list"
    /\ IF ~TagsFieldValid(request.query.tags)
       THEN Reject(HTTP_400_BAD_REQUEST, {"tags"})
       ELSE /\ response' = Response(HTTP_200_OK, {},
                              filter_queryset(request.user, request.query))
            /\ Answered
            /\ UNCHANGED db

(***************************************************************************)
(* Shopping list                                                           *)
(***************************************************************************)
RECURSIVE Sum(_)
\* Sum('amount') over a set of IngredientInRecipe rows
Sum(rows) ==
    IF rows = {} THEN 0
    ELSE LET r == CHOOSE x \in rows : TRUE
         IN  r.amount + Sum(rows \ {r})

\* user.shopping_cart.values_list('recipe', flat=True)
CartRecipes(user) ==
    {c.recipe : c \in {x \in BagToSet(shopping_cart) : x.user = user}}

\* IngredientInRecipe.objects.filter(recipe__in=...)
CartRows(user) ==
    {r \in ingredient_in_recipe : r.recipe \in CartRecipes(user)}

\* a grouping that also keeps the ingredient id apart
GroupKey_ByIngredient(r) ==
    [ingredient__name |-> Ingredient(r.ingredient).name,
     ingredient__measurement_unit |->
        Ingredient(r.ingredient).measurement_unit,
     ingredient |-> r.ingredient]

\* .values('ingredient__name', 'ingredient__measurement_unit'): the groups
GroupKey(r) ==
    [ingredient__name |-> Ingredient(r.ingredient).name,
     ingredient__measurement_unit |->
        Ingredient(r.ingredient).measurement_unit]

\* .annotate(amount_total=Sum('amount')): one item per group
Aggregate(rows) ==
    {[ingredient__name |-> g.ingredient__name,
      ingredient__measurement_unit |-> g.ingredient__measurement_unit,
      amount_total |-> Sum({r \in rows : GroupKey(r) = g})] :
        g \in {GroupKey(r) : r \in rows}}

\* the f-string of one line
FormatLine(item) ==
    item.ingredient__name \o " (" \o item.ingredient__measurement_unit
        \o ") - " \o ToString(item.amount_total) \o "\n"

RECURSIVE Join(_)
\* shopping_list += line, over the items in the order the query yields them
Join(lines) ==
    IF lines = <<>> THEN "" ELSE Head(lines) \o Join(Tail(lines))

\* The query has no ORDER BY: the store may yield the items in any order.
Orderings(items) ==
    {s \in [1..Cardinality(items) -> items] : Range(s) = items}

\* RecipeViewSet.download_shopping_cart: GET /recipes/download_shopping_cart/
\* get_permissions answers IsAuthenticatedOrReadOnly for this action, so an
\* anonymous GET reaches the handler, where user.shopping_cart raises.
download_shopping_cart ==
    /\ request.op = "download_shopping_cart"
    /\ IF request.user = Anonymous
       THEN Reject(HTTP_500_INTERNAL_SERVER_ERROR, {})
       ELSE /\ \E items \in Orderings(Aggregate(CartRows(request.user))) :
                 LET lines == [k \in DOMAIN items |-> FormatLine(items[k])]
                 IN  response' = Response(HTTP_200_OK, {},
                        [lines |-> lines, content |-> Join(lines)])
            /\ Answered
            /\ UNCHANGED db

(***************************************************************************)
(* The client side: one request is served at a time.                       *)
(***************************************************************************)
Idle == request.op = "none" /\ response.status = 0

\* a client sends one of the requests reqs; the router dispatches it to its
\* handler
Submit(reqs) ==
    /\ Idle
    /\ \E req \in reqs :
          /\ req.op = "create" => next_pk <= MaxRecipes
          /\ request' = req
    /\ UNCHANGED <<db, response, thread>>

\* the response is delivered to the client
Receive ==
    /\ response.status # 0
    /\ response' = NoResponse
    /\ UNCHANGED <<db, request, thread>>

(***************************************************************************)
(* Concurrent requests.  Each worker serves one request at a time; the     *)
(* store commits every statement on its own (no transaction.atomic wraps   *)
(* the handlers), so the statements of different workers interleave.       *)
(***************************************************************************)
Workers == {"w1", "w2"}

Thread(req, pc, pk, status, body) ==
    [request |-> req, pc |-> pc, pk |-> pk, status |-> status, body |-> body]

IdleThread == Thread(NoRequest, "idle", 0, 0, NoBody)

\* creates accepted by a worker whose Recipe row is not inserted yet
PendingCreates ==
    {w \in Workers :
        thread[w].request.op = "create" /\ thread[w].pc = "handler"}

\* a worker takes one of the requests reqs
Start(w, reqs) ==
    /\ thread[w].pc = "idle"
    /\ \E req \in reqs :
          /\ req.op = "create" =>
                next_pk + Cardinality(PendingCreates) <= MaxRecipes
          /\ thread' = [thread EXCEPT ![w] =
                          Thread(req, "handler", 0, 0, NoBody)]
    /\ UNCHANGED <<db, request, response>>

\* RecipeViewSet.create up to Recipe.objects.create(**validated_data)
create_recipe(w) ==
    LET req == thread[w].request
        errors == Errors(req.data, FALSE)
    IN
    /\ thread[w].pc = "handler"
    /\ req.op = "create"
    /\ UNCHANGED <<request, response, favorite, shopping_cart, subscription,
                   recipe_tags, ingredient_in_recipe,
                   users_user>>
    /\ IF req.user = Anonymous
       THEN /\ thread' = [thread EXCEPT ![w] =
                    Thread(req, "respond", 0, HTTP_401_UNAUTHORIZED, NoBody)]
            /\ UNCHANGED <<recipe, next_pk>>
       ELSE IF errors # {}
       THEN /\ thread' = [thread EXCEPT ![w] =
                    Thread(req, "respond", 0, HTTP_400_BAD_REQUEST, NoBody)]
            /\ UNCHANGED <<recipe, next_pk>>
       ELSE /\ recipe' = RecipeInsert(recipe, next_pk, req.user, req.data)
            /\ next_pk' = next_pk + 1
            /\ thread' = [thread EXCEPT ![w] =
                    Thread(req, "tags_set", next_pk, 0, NoBody)]

\* RecipeWriteSerializer.create: recipe.tags.set(tags_data)
create_tags_set(w) ==
    /\ thread[w].pc = "tags_set"
    /\ recipe_tags' =
          TagsSet(recipe_tags, thread[w].pk, thread[w].request.data.tags)
    /\ thread' = [thread EXCEPT ![w].pc = "create_ingredients"]
    /\ UNCHANGED <<request, response, favorite, shopping_cart, subscription,
                   recipe, ingredient_in_recipe, next_pk,
                   users_user>>

\* RecipeWriteSerializer.create: self.create_ingredients(...), then the
\* response of RecipeViewSet.create
create_create_ingredients(w) ==
    LET req == thread[w].request
        pk == thread[w].pk
    IN
    /\ thread[w].pc = "create_ingredients"
    /\ ingredient_in_recipe' =
          create_ingredients(ingredient_in_recipe, pk, req.data.ingredients)
    /\ thread' = [thread EXCEPT ![w] =
          IF BulkCreateRaises(ingredient_in_recipe, pk, req.data.ingredients)
          THEN Thread(req, "respond", pk, HTTP_500_INTERNAL_SERVER_ERROR,
                      NoBody)
          ELSE Thread(req, "respond", pk, HTTP_201_CREATED,
                      RecipeRead(recipe, recipe_tags, ingredient_in_recipe',
                                 favorite, shopping_cart, req.user, pk))]
    /\ UNCHANGED <<request, response, favorite, shopping_cart, subscription,
                   recipe, recipe_tags, next_pk,
                   users_user>>

\* RecipeViewSet.retrieve: GET /recipes/{pk}/, open to every caller
retrieve(w) ==
    LET req == thread[w].request
    IN
    /\ thread[w].pc = "handler"
    /\ req.op = "retrieve"
    /\ thread' = [thread EXCEPT ![w] =
          IF req.pk \notin DOMAIN recipe
          THEN Thread(req, "respond", req.pk, HTTP_404_NOT_FOUND, NoBody)
          ELSE Thread(req, "respond", req.pk, HTTP_200_OK,
                      RecipeRead(recipe, recipe_tags, ingredient_in_recipe,
                                 favorite, shopping_cart, req.user, req.pk))]
    /\ UNCHANGED <<db, request, response>>

\* the worker sends its response and is free again
Respond(w) ==
    /\ thread[w].pc = "respond"
    /\ thread' = [thread EXCEPT ![w] = IdleThread]
    /\ UNCHANGED <<db, request, response>>

(***************************************************************************)
(* Relation adds served by workers: the existence pre-check and the insert *)
(* are two statements, and another worker's statement can fall between.    *)
(***************************************************************************)
\* the handler up to its pre-check: permission, lookup of the target, then
\* filter(...).exists()
AddCheck(w, found, conflict) ==
    LET req == thread[w].request
    IN
    /\ thread[w].pc = "handler"
    /\ thread' = [thread EXCEPT ![w] =
          IF req.user = Anonymous
          THEN Thread(req, "respond", 0, HTTP_401_UNAUTHORIZED, NoBody)
          ELSE IF ~found
          THEN Thread(req, "respond", 0, HTTP_404_NOT_FOUND, NoBody)
          ELSE IF conflict
          THEN Thread(req, "respond", 0, HTTP_400_BAD_REQUEST, NoBody)
          ELSE Thread(req, "objects_create", 0, 0, NoBody)]
    /\ UNCHANGED <<db, request, response>>

\* the status after Model.objects.create(...): nothing catches the
\* IntegrityError of the store
AddAnswer(w, table, row) ==
    thread' = [thread EXCEPT ![w] =
        Thread(thread[w].request, "respond", 0,
               IF IntegrityError(table, row)
               THEN HTTP_500_INTERNAL_SERVER_ERROR
               ELSE HTTP_201_CREATED,
               NoBody)]

\* RecipeViewSet.add_to_favorite up to Favorite.objects.filter(...).exists()
add_to_favorite_exists(w) ==
    /\ thread[w].request.op = "add_to_favorite"
    /\ AddCheck(w, thread[w].request.pk \in DOMAIN recipe,
                Exists(favorite, RecipeRow(thread[w].request)))

\* RecipeViewSet.add_to_favorite: Favorite.objects.create(...)
add_to_favorite_create(w) ==
    /\ thread[w].pc = "objects_create"
    /\ thread[w].request.op = "add_to_favorite"
    /\ favorite' = ObjectsCreate(favorite, RecipeRow(thread[w].request))
    /\ AddAnswer(w, favorite, RecipeRow(thread[w].request))
    /\ UNCHANGED <<recipe, recipe_tags, ingredient_in_recipe, shopping_cart,
                   subscription, next_pk, request, response,
                   users_user>>

\* RecipeViewSet.add_to_shopping_cart up to
\* ShoppingCart.objects.filter(...).exists()
add_to_shopping_cart_exists(w) ==
    /\ thread[w].request.op = "add_to_shopping_cart"
    /\ AddCheck(w, thread[w].request.pk \in DOMAIN recipe,
                Exists(shopping_cart, RecipeRow(thread[w].request)))

\* RecipeViewSet.add_to_shopping_cart: ShoppingCart.objects.create(...)
add_to_shopping_cart_create(w) ==
    /\ thread[w].pc = "objects_create"
    /\ thread[w].request.op = "add_to_shopping_cart"
    /\ shopping_cart' =
          ObjectsCreate(shopping_cart, RecipeRow(thread[w].request))
    /\ AddAnswer(w, shopping_cart, RecipeRow(thread[w].request))
    /\ UNCHANGED <<recipe, recipe_tags, ingredient_in_recipe, favorite,
                   subscription, next_pk, request, response,
                   users_user>>

\* CustomUserViewSet.subscribe up to Subscription.objects.filter(...).exists()
subscribe_exists(w) ==
    /\ thread[w].request.op = "subscribe"
    /\ AddCheck(w, thread[w].request.id \in Users,
                \/ IsSelf(thread[w].request.user, thread[w].request.id)
                \/ Exists(subscription, AuthorRow(thread[w].request)))

\* CustomUserViewSet.subscribe: Subscription.objects.create(...)
subscribe_create(w) ==
    /\ thread[w].pc = "objects_create"
    /\ thread[w].request.op = "subscribe"
    /\ subscription' = ObjectsCreate(subscription, AuthorRow(thread[w].request))
    /\ AddAnswer(w, subscription, AuthorRow(thread[w].request))
    /\ UNCHANGED <<recipe, recipe_tags, ingredient_in_recipe, favorite,
                   shopping_cart, next_pk, request, response,
                   users_user>>

\* RecipeViewSet.download_shopping_cart served by a worker.  The handler
\* runs one query; recipes and ingredients are what that query read.
download(w) ==
    LET req == thread[w].request
    IN
    /\ thread[w].pc = "handler"
    /\ req.op = "download_shopping_cart"
    /\ IF req.user = Anonymous
       THEN thread' = [thread EXCEPT ![w] =
                Thread(req, "respond", 0, HTTP_500_INTERNAL_SERVER_ERROR,
                       NoBody)]
       ELSE \E items \in Orderings(Aggregate(CartRows(req.user))) :
                LET lines == [k \in DOMAIN items |-> FormatLine(items[k])]
                IN  thread' = [thread EXCEPT ![w] =
                        Thread(req, "respond", 0, HTTP_200_OK,
                               [lines |-> lines,
                                content |-> Join(lines),
                                recipes |-> CartRecipes(req.user),
                                ingredients |-> CartRows(req.user)])]
    /\ UNCHANGED <<db, request, response>>

(***************************************************************************)
(* A recipe update served by a worker: RecipeWriteSerializer.update runs   *)
(* instance.save(), tags.set, ingredients.clear and bulk_create as four    *)
(* statements.                                                             *)
(***************************************************************************)
\* RecipeViewSet.update up to instance.save(): get_object with its
\* permission checks, is_valid, then the UPDATE of the Recipe row
update_save(w) ==
    LET req == thread[w].request
        pk == req.pk
        errors == Errors(req.data, req.partial)
    IN
    /\ thread[w].pc = "handler"
    /\ req.op = "update"
    /\ UNCHANGED <<request, response, favorite, shopping_cart, subscription,
                   recipe_tags, ingredient_in_recipe, next_pk,
                   users_user>>
    /\ IF req.user = Anonymous
       THEN /\ thread' = [thread EXCEPT ![w] =
                    Thread(req, "respond", 0, HTTP_401_UNAUTHORIZED, NoBody)]
            /\ UNCHANGED recipe
       ELSE IF pk \notin DOMAIN recipe
       THEN /\ thread' = [thread EXCEPT ![w] =
                    Thread(req, "respond", 0, HTTP_404_NOT_FOUND, NoBody)]
            /\ UNCHANGED recipe
       ELSE IF ~IsAuthor(req.user, recipe[pk])
       THEN /\ thread' = [thread EXCEPT ![w] =
                    Thread(req, "respond", 0, HTTP_403_FORBIDDEN, NoBody)]
            /\ UNCHANGED recipe
       ELSE IF errors # {}
       THEN /\ thread' = [thread EXCEPT ![w] =
                    Thread(req, "respond", 0, HTTP_400_BAD_REQUEST, NoBody)]
            /\ UNCHANGED recipe
       ELSE /\ recipe' = RecipeSave(recipe, pk, req.data)
            /\ thread' = [thread EXCEPT ![w] =
                    Thread(req, "update_tags_set", 0, 0, NoBody)]

\* RecipeWriteSerializer.update: instance.tags.set(tags_data)
update_tags_set(w) ==
    /\ thread[w].pc = "update_tags_set"
    /\ recipe_tags' =
          UpdatedTags(recipe_tags, thread[w].request.pk, thread[w].request.data)
    /\ thread' = [thread EXCEPT ![w].pc = "update_clear"]
    /\ UNCHANGED <<request, response, favorite, shopping_cart, subscription,
                   recipe, ingredient_in_recipe, next_pk,
                   users_user>>

\* RecipeWriteSerializer.update: instance.ingredients.clear()
update_clear(w) ==
    /\ thread[w].pc = "update_clear"
    /\ ingredient_in_recipe' =
          IF "ingredients" \in thread[w].request.data.keys
          THEN IngredientsClear(ingredient_in_recipe, thread[w].request.pk)
          ELSE ingredient_in_recipe
    /\ thread' = [thread EXCEPT ![w].pc = "update_create_ingredients"]
    /\ UNCHANGED <<request, response, favorite, shopping_cart, subscription,
                   recipe, recipe_tags, next_pk,
                   users_user>>

\* RecipeWriteSerializer.update: self.create_ingredients(...), then the
\* response of RecipeViewSet.update
update_create_ingredients(w) ==
    LET req == thread[w].request
        pk == req.pk
        given == "ingredients" \in req.data.keys
    IN
    /\ thread[w].pc = "update_create_ingredients"
    /\ ingredient_in_recipe' =
          IF given
          THEN create_ingredients(ingredient_in_recipe, pk,
                                  req.data.ingredients)
          ELSE ingredient_in_recipe
    /\ thread' = [thread EXCEPT ![w] =
          IF given /\ BulkCreateRaises(ingredient_in_recipe, pk,
                                       req.data.ingredients)
          THEN Thread(req, "respond", 0, HTTP_500_INTERNAL_SERVER_ERROR,
                      NoBody)
          ELSE Thread(req, "respond", 0, HTTP_200_OK,
                      RecipeRead(recipe, recipe_tags, ingredient_in_recipe',
                                 favorite, shopping_cart, req.user, pk))]
    /\ UNCHANGED <<request, response, favorite, shopping_cart, subscription,
                   recipe, recipe_tags, next_pk,
                   users_user>>

(***************************************************************************)
(* Relation removes served by workers: filter(...).exists() and            *)
(* filter(...).delete() are two statements.                                *)
(***************************************************************************)
\* the handler up to its pre-check: permission, lookup of the target, then
\* `if not queryset.exists()`
RemoveCheck(w, found, present) ==
    LET req == thread[w].request
    IN
    /\ thread[w].pc = "handler"
    /\ thread' = [thread EXCEPT ![w] =
          IF req.user = Anonymous
          THEN Thread(req, "respond", 0, HTTP_401_UNAUTHORIZED, NoBody)
          ELSE IF ~found
          THEN Thread(req, "respond", 0, HTTP_404_NOT_FOUND, NoBody)
          ELSE IF ~present
          THEN Thread(req, "respond", 0, HTTP_400_BAD_REQUEST, NoBody)
          ELSE Thread(req, "delete", 0, 0, NoBody)]
    /\ UNCHANGED <<db, request, response>>

\* the response after queryset.delete(), whatever the number of rows deleted
RemoveAnswer(w) ==
    thread' = [thread EXCEPT ![w] =
        Thread(thread[w].request, "respond", 0, HTTP_204_NO_CONTENT, NoBody)]

\* RecipeViewSet.remove_from_favorite up to favorite_item.exists()
remove_from_favorite_exists(w) ==
    /\ thread[w].request.op = "remove_from_favorite"
    /\ RemoveCheck(w, thread[w].request.pk \in DOMAIN recipe,
                   Exists(favorite, RecipeRow(thread[w].request)))

\* RecipeViewSet.remove_from_favorite: favorite_item.delete()
remove_from_favorite_delete(w) ==
    /\ thread[w].pc = "delete"
    /\ thread[w].request.op = "remove_from_favorite"
    /\ favorite' = QuerysetDelete(favorite, RecipeRow(thread[w].request))
    /\ RemoveAnswer(w)
    /\ UNCHANGED <<recipe, recipe_tags, ingredient_in_recipe, shopping_cart,
                   subscription, users_user, next_pk, request, response>>

\* RecipeViewSet.remove_from_shopping_cart up to shopping_cart_item.exists()
remove_from_shopping_cart_exists(w) ==
    /\ thread[w].request.op = "remove_from_shopping_cart"
    /\ RemoveCheck(w, thread[w].request.pk \in DOMAIN recipe,
                   Exists(shopping_cart, RecipeRow(thread[w].request)))

\* RecipeViewSet.remove_from_shopping_cart: shopping_cart_item.delete()
remove_from_shopping_cart_delete(w) ==
    /\ thread[w].pc = "delete"
    /\ thread[w].request.op = "remove_from_shopping_cart"
    /\ shopping_cart' =
          QuerysetDelete(shopping_cart, RecipeRow(thread[w].request))
    /\ RemoveAnswer(w)
    /\ UNCHANGED <<recipe, recipe_tags, ingredient_in_recipe, favorite,
                   subscription, users_user, next_pk, request, response>>

\* CustomUserViewSet.unsubscribe up to subscription.exists()
unsubscribe_exists(w) ==
    /\ thread[w].request.op = "unsubscribe"
    /\ RemoveCheck(w, thread[w].request.id \in Users,
                   Exists(subscription, AuthorRow(thread[w].request)))

\* CustomUserViewSet.unsubscribe: subscription.delete()
unsubscribe_delete(w) ==
    /\ thread[w].pc = "delete"
    /\ thread[w].request.op = "unsubscribe"
    /\ subscription' = QuerysetDelete(subscription, AuthorRow(thread[w].request))
    /\ RemoveAnswer(w)
    /\ UNCHANGED <<recipe, recipe_tags, ingredient_in_recipe, favorite,
                   shopping_cart, users_user, next_pk, request, response>>

(***************************************************************************)
(* Inputs of the recipe-write specification                                *)
(***************************************************************************)
BoundaryValues == {MIN_VALUE - 1, MIN_VALUE, MAX_VALUE, MAX_VALUE + 1}
UnknownIngredient == Cardinality(IngredientIds) + 1
UnknownTag == Cardinality(TagIds) + 1

BaseIngredients == <<[id |-> 1, amount |-> MIN_VALUE]>>
BaseTags == <<1, 2>>

IngredientLists ==
    SeqsUpTo([id : {1, 2}, amount : {MIN_VALUE}], MaxLen)
    \cup {<<[id |-> 1, amount |-> a]>> : a \in BoundaryValues}
    \cup {<<[id |-> 1, amount |-> MIN_VALUE], [id |-> 1, amount |-> MAX_VALUE]>>}
    \cup {<<[id |-> UnknownIngredient, amount |-> MIN_VALUE]>>}

TagLists == SeqsUpTo(TagIds, MaxLen) \cup {<<UnknownTag>>}

\* Payloads that differ from a valid base payload in one field, or lack one key
RecipeData ==
    {Data(FieldNames, i, BaseTags, MIN_VALUE) : i \in IngredientLists}
    \cup {Data(FieldNames, BaseIngredients, t, MIN_VALUE) : t \in TagLists}
    \cup {Data(FieldNames, BaseIngredients, BaseTags, c) : c \in BoundaryValues}
    \cup {Data(FieldNames \ {f}, BaseIngredients, BaseTags, MIN_VALUE) :
            f \in FieldNames}

RecipeRequests ==
    {Request("create", u, 0, Anonymous, d, FALSE, NoQuery) :
        u \in Users, d \in RecipeData}
    \cup {Request("update", u, pk, Anonymous, d, p, NoQuery) :
        u \in Users, pk \in RecipeIds, d \in RecipeData, p \in BOOLEAN}
    \cup {Request("destroy", u, pk, Anonymous, NoData, FALSE, NoQuery) :
        u \in Users, pk \in RecipeIds}

Init ==
    /\ recipe = <<>>
    /\ recipe_tags = {}
    /\ ingredient_in_recipe = {}
    /\ favorite = EmptyBag
    /\ shopping_cart = EmptyBag
    /\ subscription = EmptyBag
    /\ users_user = {UserRow(u) : u \in Users}
    /\ next_pk = 1
    /\ request = NoRequest
    /\ response = NoResponse
    /\ thread = [w \in Workers |-> IdleThread]

\* Recipe writes
Next ==
    \/ Submit(RecipeRequests)
    \/ RecipeCreate
    \/ RecipeUpdate
    \/ RecipeDestroy
    \/ Receive

Spec == Init /\ [][Next]_vars

(***************************************************************************)
(* Favorite, ShoppingCart and Subscription requests over recipes created   *)
(* from the base payload.                                                  *)
(***************************************************************************)
BaseData == Data(FieldNames, BaseIngredients, BaseTags, MIN_VALUE)
UnknownUser == "u9"
AnyRecipeIds == 1..(MaxRecipes + 1)

ToggleRequests ==
    {Request("create", "u1", 0, Anonymous, BaseData, FALSE, NoQuery)}
    \cup {Request(op, u, pk, Anonymous, NoData, FALSE, NoQuery) :
            op \in {"add_to_favorite", "remove_from_favorite",
                    "add_to_shopping_cart", "remove_from_shopping_cart"},
            u \in Users, pk \in AnyRecipeIds}
    \cup {Request(op, u, 0, a, NoData, FALSE, NoQuery) :
            op \in {"subscribe", "unsubscribe"},
            u \in Users, a \in Users \cup {UnknownUser}}

NextToggle ==
    \/ Submit(ToggleRequests)
    \/ RecipeCreate
    \/ add_to_favorite
    \/ remove_from_favorite
    \/ add_to_shopping_cart
    \/ remove_from_shopping_cart
    \/ subscribe
    \/ unsubscribe
    \/ Receive

SpecToggle == Init /\ [][NextToggle]_vars

(***************************************************************************)
(* Listing with the is_favorited / is_in_shopping_cart parameters          *)
(***************************************************************************)
ParamValues == {NoneValue, "1", "0", "true", "abc"}

ListRequests ==
    {Request("create", "u1", 0, Anonymous, BaseData, FALSE, NoQuery)}
    \cup {Request(op, u, pk, Anonymous, NoData, FALSE, NoQuery) :
            op \in {"add_to_favorite", "add_to_shopping_cart"},
            u \in Users, pk \in RecipeIds}
    \cup {Request("list", u, 0, Anonymous, NoData, FALSE,
                  Query(f, c, NoneValue, <<>>)) :
            u \in Callers, f \in ParamValues, c \in ParamValues}

NextList ==
    \/ Submit(ListRequests)
    \/ RecipeCreate
    \/ add_to_favorite
    \/ add_to_shopping_cart
    \/ list
    \/ Receive

SpecList == Init /\ [][NextList]_vars

(***************************************************************************)
(* Downloading the shopping list                                           *)
(***************************************************************************)
\* every ingredient comes with an amount of its own (2, 4, 6), in lists
\* written in the order of the ingredient ids
CartIngredientLists ==
    {s \in SeqsUpTo({[id |-> i, amount |-> 2 * i] : i \in IngredientIds},
                    MaxLen) :
        /\ s # <<>>
        /\ \A i, j \in DOMAIN s : i < j => s[i].id < s[j].id}

CartRequests ==
    {Request("create", "u1", 0, Anonymous,
             Data(FieldNames, i, BaseTags, MIN_VALUE), FALSE, NoQuery) :
        i \in CartIngredientLists}
    \cup {Request("add_to_shopping_cart", u, pk, Anonymous, NoData, FALSE,
                  NoQuery) : u \in Users, pk \in RecipeIds}
    \cup {Request("download_shopping_cart", u, 0, Anonymous, NoData, FALSE,
                  NoQuery) : u \in Callers}

NextCart ==
    \/ Submit(CartRequests)
    \/ RecipeCreate
    \/ add_to_shopping_cart
    \/ download_shopping_cart
    \/ Receive

SpecCart == Init /\ [][NextCart]_vars

(***************************************************************************)
(* A recipe create served while other workers read recipes                 *)
(***************************************************************************)
OtherData ==
    Data(FieldNames, <<[id |-> 2, amount |-> MIN_VALUE + 1]>>, <<2>>,
         MAX_VALUE)

ConcRequests ==
    {Request("create", u, 0, Anonymous, d, FALSE, NoQuery) :
        u \in Callers, d \in {BaseData, OtherData, NoData}}
    \cup {Request("retrieve", u, pk, Anonymous, NoData, FALSE, NoQuery) :
        u \in {Anonymous, "u2"}, pk \in RecipeIds}

NextConc ==
    \/ \E w \in Workers : Start(w, ConcRequests)
    \/ \E w \in Workers : create_recipe(w)
    \/ \E w \in Workers : create_tags_set(w)
    \/ \E w \in Workers : create_create_ingredients(w)
    \/ \E w \in Workers : retrieve(w)
    \/ \E w \in Workers : Respond(w)

SpecConc == Init /\ [][NextConc]_vars

(***************************************************************************)
(* Relation adds of one pair raced by two workers                          *)
(***************************************************************************)
RaceRequests ==
    {Request("create", "u1", 0, Anonymous, BaseData, FALSE, NoQuery)}
    \cup {Request(op, u, pk, Anonymous, NoData, FALSE, NoQuery) :
            op \in {"add_to_favorite", "add_to_shopping_cart"},
            u \in {"u2", Anonymous}, pk \in RecipeIds}
    \cup {Request("subscribe", u, 0, a, NoData, FALSE, NoQuery) :
            u \in {"u2"}, a \in Users \cup {UnknownUser}}

NextRace ==
    \/ \E w \in Workers : Start(w, RaceRequests)
    \/ \E w \in Workers : create_recipe(w)
    \/ \E w \in Workers : create_tags_set(w)
    \/ \E w \in Workers : create_create_ingredients(w)
    \/ \E w \in Workers : add_to_favorite_exists(w)
    \/ \E w \in Workers : add_to_favorite_create(w)
    \/ \E w \in Workers : add_to_shopping_cart_exists(w)
    \/ \E w \in Workers : add_to_shopping_cart_create(w)
    \/ \E w \in Workers : subscribe_exists(w)
    \/ \E w \in Workers : subscribe_create(w)
    \/ \E w \in Workers : Respond(w)

SpecRace == Init /\ [][NextRace]_vars

(***************************************************************************)
(* Shopping lists downloaded by two workers                                *)
(***************************************************************************)
OrderIngredientLists ==
    {s \in CartIngredientLists : Len(s) = 1 \/ s[1].id = 1}

OrderRequests ==
    {Request("create", "u1", 0, Anonymous,
             Data(FieldNames, i, BaseTags, MIN_VALUE), FALSE, NoQuery) :
        i \in OrderIngredientLists}
    \cup {Request("add_to_shopping_cart", "u2", pk, Anonymous, NoData, FALSE,
                  NoQuery) : pk \in RecipeIds}
    \cup {Request("download_shopping_cart", u, 0, Anonymous, NoData, FALSE,
                  NoQuery) : u \in {"u2", Anonymous}}

NextOrder ==
    \/ \E w \in Workers : Start(w, OrderRequests)
    \/ \E w \in Workers : create_recipe(w)
    \/ \E w \in Workers : create_tags_set(w)
    \/ \E w \in Workers : create_create_ingredients(w)
    \/ \E w \in Workers : add_to_shopping_cart_exists(w)
    \/ \E w \in Workers : add_to_shopping_cart_create(w)
    \/ \E w \in Workers : download(w)
    \/ \E w \in Workers : Respond(w)

SpecOrder == Init /\ [][NextOrder]_vars

(***************************************************************************)
(* Listing with the author / tags parameters                               *)
(***************************************************************************)
UnknownSlug == "dinner"

FilterRequests ==
    {Request("create", u, 0, Anonymous,
             Data(FieldNames, BaseIngredients, t, MIN_VALUE), FALSE, NoQuery) :
        u \in Users, t \in {<<1>>, <<2>>, <<1, 2>>}}
    \cup {Request("list", Anonymous, 0, Anonymous, NoData, FALSE,
                  Query(NoneValue, NoneValue, a, t)) :
            a \in {NoneValue} \cup Users \cup {UnknownUser},
            t \in SeqsUpTo(TagSlugs \cup {UnknownSlug}, MaxLen)}

NextFilter ==
    \/ Submit(FilterRequests)
    \/ RecipeCreate
    \/ list
    \/ Receive

SpecFilter == Init /\ [][NextFilter]_vars

(***************************************************************************)
(* Updates of one recipe raced by two workers                              *)
(***************************************************************************)
\* the valid ingredient lists over ingredients 1 and 2
UpdateIngredientLists ==
    {i \in SeqsUpTo([id : {1, 2}, amount : {MIN_VALUE}], MaxLen) :
        validate_ingredients(i)}

UpdateRequests ==
    {Request("create", "u1", 0, Anonymous, BaseData, FALSE, NoQuery)}
    \cup {Request("update", "u1", pk, Anonymous,
                  Data(FieldNames, i, <<1>>, MAX_VALUE), FALSE, NoQuery) :
            pk \in RecipeIds, i \in UpdateIngredientLists}

NextUpdate ==
    \/ \E w \in Workers : Start(w, UpdateRequests)
    \/ \E w \in Workers : create_recipe(w)
    \/ \E w \in Workers : create_tags_set(w)
    \/ \E w \in Workers : create_create_ingredients(w)
    \/ \E w \in Workers : update_save(w)
    \/ \E w \in Workers : update_tags_set(w)
    \/ \E w \in Workers : update_clear(w)
    \/ \E w \in Workers : update_create_ingredients(w)
    \/ \E w \in Workers : Respond(w)

SpecUpdate == Init /\ [][NextUpdate]_vars

(***************************************************************************)
(* Registration requests                                                   *)
(***************************************************************************)
NewUser == "u3"

UserRequests ==
    {Request("user_create", Anonymous, 0, Anonymous,
             UserData(k, UserRow(e).email, UserRow(n).username),
             FALSE, NoQuery) :
        k \in SUBSET UserFieldNames,
        e \in {"u1", NewUser}, n \in {"u2", NewUser}}

NextUser ==
    \/ Submit(UserRequests)
    \/ UserCreate
    \/ Receive

SpecUser == Init /\ [][NextUser]_vars

(***************************************************************************)
(* Relation adds and removes of one pair raced by two workers              *)
(***************************************************************************)
AlternateRequests ==
    {Request("create", "u1", 0, Anonymous, BaseData, FALSE, NoQuery)}
    \cup {Request(op, "u2", pk, Anonymous, NoData, FALSE, NoQuery) :
            op \in {"add_to_favorite", "remove_from_favorite",
                    "add_to_shopping_cart", "remove_from_shopping_cart"},
            pk \in RecipeIds}
    \cup {Request(op, "u2", 0, "u1", NoData, FALSE, NoQuery) :
            op \in {"subscribe", "unsubscribe"}}

NextAlternate ==
    \/ \E w \in Workers : Start(w, AlternateRequests)
    \/ \E w \in Workers : create_recipe(w)
    \/ \E w \in Workers : create_tags_set(w)
    \/ \E w \in Workers : create_create_ingredients(w)
    \/ \E w \in Workers : add_to_favorite_exists(w)
    \/ \E w \in Workers : add_to_favorite_create(w)
    \/ \E w \in Workers : remove_from_favorite_exists(w)
    \/ \E w \in Workers : remove_from_favorite_delete(w)
    \/ \E w \in Workers : add_to_shopping_cart_exists(w)
    \/ \E w \in Workers : add_to_shopping_cart_create(w)
    \/ \E w \in Workers : remove_from_shopping_cart_exists(w)
    \/ \E w \in Workers : remove_from_shopping_cart_delete(w)
    \/ \E w \in Workers : subscribe_exists(w)
    \/ \E w \in Workers : subscribe_create(w)
    \/ \E w \in Workers : unsubscribe_exists(w)
    \/ \E w \in Workers : unsubscribe_delete(w)
    \/ \E w \in Workers : Respond(w)

SpecAlternate == Init /\ [][NextAlternate]_vars

(***************************************************************************)
(* Properties                                                              *)
(***************************************************************************)
\* the step in which a handler answers the request it was given
Handled == request.op # "none" /\ request'.op = "none"

Pairs(ingredients_data) ==
    {<<ingredients_data[k].id, ingredients_data[k].amount>> :
        k \in DOMAIN ingredients_data}

RowsOf(rows, pk) == {r \in rows : r.recipe = pk}
RowPairs(rows, pk) == {<<r.ingredient, r.amount>> : r \in RowsOf(rows, pk)}
TagsOf(links, pk) == {l.tag : l \in {x \in links : x.recipe = pk}}

RepeatsAnId(ingredients_data) ==
    \E i, j \in DOMAIN ingredients_data :
        i # j /\ ingredients_data[i].id = ingredients_data[j].id

\* C1: a create by an authenticated user with a valid payload succeeds, and
\* after a successful create of a payload with N distinct ingredients and M
\* distinct tags the recipe reads back (in the response and from the store)
\* with exactly N ingredient entries equal to the submitted (id, amount)
\* pairs, exactly M tags equal to the submitted ids, and the caller as author.
C1_CreateReadsBack ==
    LET req == response.request
        d == req.data
        b == response.body
    IN  /\ (req.op = "create" /\ req.user \in Users /\ Errors(d, FALSE) = {})
              => response.status = HTTP_201_CREATED
        /\ (req.op = "create" /\ response.status = HTTP_201_CREATED) =>
              /\ Cardinality(b.ingredients) = Len(d.ingredients)
              /\ {<<e.id, e.amount>> : e \in b.ingredients}
                    = Pairs(d.ingredients)
              /\ Cardinality(b.tags) = Len(d.tags)
              /\ b.tags = Range(d.tags)
              /\ b.author = req.user
              /\ b.id \in DOMAIN recipe
              /\ recipe[b.id].author = req.user
              /\ RowPairs(ingredient_in_recipe, b.id) = Pairs(d.ingredients)
              /\ Cardinality(RowsOf(ingredient_in_recipe, b.id))
                    = Len(d.ingredients)
              /\ TagsOf(recipe_tags, b.id) = Range(d.tags)

C1_Witness ==
    /\ response.request.op = "create"
    /\ response.status = HTTP_201_CREATED
    /\ Len(response.request.data.ingredients) = 2
    /\ Len(response.request.data.tags) = 2
    /\ response.body.id = 2

\* C2: a create or update whose ingredients list repeats an ingredient id is
\* answered with an error and leaves every table as it was; once the request
\* has passed authentication, lookup and the author check, the error is a
\* validation error (400) on the ingredients field.
C2_DuplicateIngredientRejected ==
    [][(/\ Handled
        /\ request.op \in {"create", "update"}
        /\ RepeatsAnId(request.data.ingredients))
       => /\ UNCHANGED db
          /\ response'.status \in {HTTP_400_BAD_REQUEST, HTTP_401_UNAUTHORIZED,
                                   HTTP_403_FORBIDDEN, HTTP_404_NOT_FOUND}
          /\ (/\ request.user \in Users
              /\ request.op = "update" =>
                    /\ request.pk \in DOMAIN recipe
                    /\ recipe[request.pk].author = request.user)
             => /\ response'.status = HTTP_400_BAD_REQUEST
                /\ "ingredients" \in response'.errors]_vars

C2_Witness ==
    /\ response.request.op = "update"
    /\ response.status = HTTP_400_BAD_REQUEST
    /\ RepeatsAnId(response.request.data.ingredients)
    /\ response.request.data.ingredients[1]
          # response.request.data.ingredients[2]
    /\ RowsOf(ingredient_in_recipe, response.request.pk) # {}

\* C3: after a successful update whose payload carries an ingredients list,
\* the IngredientInRecipe rows of that recipe are exactly the submitted
\* (ingredient, amount) pairs, one row per submitted entry, and the rows of
\* every other recipe are the rows they were.
C3_UpdateReplacesIngredients ==
    [][(/\ Handled
        /\ request.op = "update"
        /\ response'.status = HTTP_200_OK
        /\ "ingredients" \in request.data.keys)
       => /\ RowPairs(ingredient_in_recipe', request.pk)
                = Pairs(request.data.ingredients)
          /\ Cardinality(RowsOf(ingredient_in_recipe', request.pk))
                = Len(request.data.ingredients)
          /\ \A pk \in RecipeIds \ {request.pk} :
                RowsOf(ingredient_in_recipe', pk)
                    = RowsOf(ingredient_in_recipe, pk)]_vars

C3_Witness ==
    /\ response.request.op = "update"
    /\ response.status = HTTP_200_OK
    /\ RowPairs(ingredient_in_recipe, response.request.pk)
          = {<<2, MIN_VALUE>>}
    /\ \E pk \in DOMAIN recipe :
          /\ pk # response.request.pk
          /\ Cardinality(RowsOf(ingredient_in_recipe, pk)) = 2

\* C8: the cooking_time of a create or update is in error exactly when it is
\* outside [1, 32000]: 0 and 32001 are rejected with a validation error, 1
\* and 32000 are accepted, and every Recipe row holds a cooking_time in
\* [1, 32000].
C8_CookingTimeBounds ==
    LET req == response.request
        ct == req.data.cooking_time
    IN  /\ (/\ req.op \in {"create", "update"}
            /\ response.status \in {HTTP_200_OK, HTTP_201_CREATED,
                                    HTTP_400_BAD_REQUEST}
            /\ "cooking_time" \in req.data.keys)
           => /\ ("cooking_time" \in response.errors) <=> ~(ct \in 1..32000)
              /\ ct \in {0, 32001} =>
                    response.status = HTTP_400_BAD_REQUEST
              /\ (ct \in {1, 32000} /\ response.errors = {}) =>
                    response.status \in {HTTP_200_OK, HTTP_201_CREATED}
              /\ (req.op = "create"
                    /\ response.status = HTTP_201_CREATED) =>
                    recipe[response.body.id].cooking_time = ct
              /\ (req.op = "update" /\ response.status = HTTP_200_OK) =>
                    recipe[req.pk].cooking_time = ct
        /\ \A pk \in DOMAIN recipe : recipe[pk].cooking_time \in 1..32000

C8_Witness ==
    /\ response.request.op = "update"
    /\ response.status = HTTP_200_OK
    /\ response.request.data.cooking_time = 32000
    /\ \E pk \in DOMAIN recipe : recipe[pk].cooking_time = 1

(***************************************************************************)
(* Relation requests (SpecToggle)                                          *)
(***************************************************************************)
\* an add to the table tbl for row: a conflict (400) that leaves the single
\* row of the pair when the row exists, one inserted row (201) when it does
\* not; the rows of every other pair stay
AddOutcome(tbl, tbl_next, row, resp) ==
    /\ CopiesIn(row, tbl) >= 1 =>
          /\ resp.status = HTTP_400_BAD_REQUEST
          /\ CopiesIn(row, tbl) = 1
          /\ tbl_next = tbl
    /\ CopiesIn(row, tbl) = 0 =>
          /\ resp.status = HTTP_201_CREATED
          /\ CopiesIn(row, tbl_next) = 1
    /\ \A e \in (BagToSet(tbl) \cup BagToSet(tbl_next)) \ {row} :
          CopiesIn(e, tbl_next) = CopiesIn(e, tbl)

\* C4: for Favorite and ShoppingCart and every (user, recipe) pair, an add
\* issued while the row exists fails with 400 and leaves exactly one row of
\* the pair; an add issued while it is absent inserts exactly one row.
C4_AddConflictOrInsert ==
    [][(/\ Handled
        /\ request.user \in Users
        /\ request.pk \in DOMAIN recipe)
       => /\ request.op = "add_to_favorite" =>
                /\ AddOutcome(favorite, favorite', RecipeRow(request),
                              response')
                /\ UNCHANGED <<shopping_cart, subscription>>
          /\ request.op = "add_to_shopping_cart" =>
                /\ AddOutcome(shopping_cart, shopping_cart',
                              RecipeRow(request), response')
                /\ UNCHANGED <<favorite, subscription>>]_vars

C4_Witness ==
    /\ response.request.op = "add_to_favorite"
    /\ response.status = HTTP_400_BAD_REQUEST
    /\ CopiesIn(RecipeRow(response.request), favorite) = 1
    /\ BagCardinality(shopping_cart) >= 1

\* a remove from the table tbl for row: an error (400) that deletes nothing
\* when the row is absent, the deletion of exactly that row (204) when it is
\* present
RemoveOutcome(tbl, tbl_next, row, resp) ==
    /\ CopiesIn(row, tbl) = 0 =>
          /\ resp.status = HTTP_400_BAD_REQUEST
          /\ tbl_next = tbl
    /\ CopiesIn(row, tbl) >= 1 =>
          /\ resp.status = HTTP_204_NO_CONTENT
          /\ CopiesIn(row, tbl_next) = 0
          /\ \A e \in BagToSet(tbl) \ {row} :
                CopiesIn(e, tbl_next) = CopiesIn(e, tbl)
          /\ BagToSet(tbl_next) \subseteq BagToSet(tbl)

\* C5: for Favorite, ShoppingCart and Subscription, a remove of a pair whose
\* row does not exist fails with 400 and deletes no row of any relation; a
\* remove issued while the row exists deletes exactly that row.
C5_RemoveAbsentOrDelete ==
    [][(Handled /\ request.user \in Users)
       => /\ (request.op = "remove_from_favorite"
                /\ request.pk \in DOMAIN recipe) =>
                /\ RemoveOutcome(favorite, favorite', RecipeRow(request),
                                 response')
                /\ UNCHANGED <<shopping_cart, subscription>>
          /\ (request.op = "remove_from_shopping_cart"
                /\ request.pk \in DOMAIN recipe) =>
                /\ RemoveOutcome(shopping_cart, shopping_cart',
                                 RecipeRow(request), response')
                /\ UNCHANGED <<favorite, subscription>>
          /\ (request.op = "unsubscribe" /\ request.id \in Users) =>
                /\ RemoveOutcome(subscription, subscription',
                                 AuthorRow(request), response')
                /\ UNCHANGED <<favorite, shopping_cart>>]_vars

C5_Witness ==
    /\ response.request.op = "remove_from_favorite"
    /\ response.status = HTTP_204_NO_CONTENT
    /\ BagCardinality(favorite) >= 2
    /\ \E f \in BagToSet(favorite) : f.user = response.request.user
    /\ BagCardinality(shopping_cart) >= 1
    /\ BagCardinality(subscription) >= 1

C5_WitnessAbsent ==
    /\ response.request.op = "unsubscribe"
    /\ response.status = HTTP_400_BAD_REQUEST
    /\ BagCardinality(subscription) >= 1

\* C7: a subscribe whose target is the caller fails with 400 whatever rows
\* exist, and no Subscription row ever has user equal to author.
C7_NoSelfSubscription ==
    /\ (/\ response.request.op = "subscribe"
        /\ response.request.user = response.request.id)
       => response.status = HTTP_400_BAD_REQUEST
    /\ \A row \in BagToSet(subscription) : row.user # row.author

C7_Witness ==
    /\ response.request.op = "subscribe"
    /\ response.request.user = response.request.id
    /\ response.status = HTTP_400_BAD_REQUEST
    /\ BagCardinality(subscription) = 2

(***************************************************************************)
(* Listing (SpecList)                                                      *)
(***************************************************************************)
FavoritedBy(user) ==
    {pk \in DOMAIN recipe : CopiesIn([user |-> user, recipe |-> pk],
                                     favorite) >= 1}
InCartOf(user) ==
    {pk \in DOMAIN recipe : CopiesIn([user |-> user, recipe |-> pk],
                                     shopping_cart) >= 1}

\* C9: an anonymous listing gets status 200 and every recipe once, whatever
\* the values of is_favorited and is_in_shopping_cart; an authenticated listing
\* with is_favorited=1 gets exactly the recipes the caller has favorited,
\* with is_in_shopping_cart=1 exactly the recipes of the caller's cart (and
\* with both, the recipes in both).
C9_ListFlags ==
    LET req == response.request
        q == req.query
    IN  req.op = "list" =>
          /\ response.status = HTTP_200_OK
          /\ req.user = Anonymous => response.body = SetToBag(DOMAIN recipe)
          /\ (req.user \in Users /\ q.is_favorited = "1"
                /\ q.is_in_shopping_cart = NoneValue)
             => response.body = SetToBag(FavoritedBy(req.user))
          /\ (req.user \in Users /\ q.is_in_shopping_cart = "1"
                /\ q.is_favorited = NoneValue)
             => response.body = SetToBag(InCartOf(req.user))
          /\ (req.user \in Users /\ q.is_in_shopping_cart = "1"
                /\ q.is_favorited = "1")
             => response.body =
                   SetToBag(FavoritedBy(req.user) \cap InCartOf(req.user))

C9_Witness ==
    /\ response.request.op = "list"
    /\ response.request.user = Anonymous
    /\ response.request.query.is_favorited = "1"
    /\ response.request.query.is_in_shopping_cart = "abc"
    /\ BagCardinality(response.body) = 2
    /\ BagCardinality(favorite) = 1
    /\ BagCardinality(shopping_cart) = 1

C9_WitnessAuthenticated ==
    /\ response.request.op = "list"
    /\ response.request.user = "u1"
    /\ response.request.query.is_favorited = "1"
    /\ response.body = SetToBag({2})
    /\ Cardinality(DOMAIN recipe) = 2
    /\ [user |-> "u2", recipe |-> 1] \in BagToSet(favorite)

(***************************************************************************)
(* Shopping list (SpecCart)                                                *)
(***************************************************************************)
\* the amount of ingredient i in recipe pk, 0 when the recipe has no such row
AmountIn(pk, i) ==
    LET rs == {r \in ingredient_in_recipe :
                 r.recipe = pk /\ r.ingredient = i}
    IN  IF rs = {} THEN 0 ELSE (CHOOSE r \in rs : TRUE).amount

RECURSIVE TotalOver(_)
\* the sum of AmountIn over a set of <<recipe, ingredient>> pairs
TotalOver(cells) ==
    IF cells = {} THEN 0
    ELSE LET c == CHOOSE x \in cells : TRUE
         IN  AmountIn(c[1], c[2]) + TotalOver(cells \ {c})

NameUnit(i) == <<Ingredient(i).name, Ingredient(i).measurement_unit>>

\* the shopping list expected for a user: for every (name, unit) pair of a
\* row of a recipe of the user's cart, the line "name (unit) - total"
ExpectedLines(user) ==
    LET in_cart == InCartOf(user)
        cells == {c \in in_cart \X IngredientIds : AmountIn(c[1], c[2]) > 0}
        pairs == {NameUnit(c[2]) : c \in cells}
    IN  {p[1] \o " (" \o p[2] \o ") - "
            \o ToString(TotalOver({c \in cells : NameUnit(c[2]) = p}))
            \o "\n" : p \in pairs}

\* C6: the downloaded list of an authenticated user is answered with 200 and
\* has exactly one line per distinct (name, unit) pair of the rows of the
\* recipes in that user's cart, with the sum of the amounts of all those
\* rows (rows of distinct ingredient ids of one name and unit included);
\* other recipes contribute nothing and an empty cart gives an empty body.
C6_ShoppingList ==
    LET req == response.request
        b == response.body
    IN  (req.op = "download_shopping_cart" /\ req.user \in Users) =>
          /\ response.status = HTTP_200_OK
          /\ Range(b.lines) = ExpectedLines(req.user)
          /\ Len(b.lines) = Cardinality(ExpectedLines(req.user))
          /\ b.content = Join(b.lines)
          /\ InCartOf(req.user) = {} => b.content = ""

C6_Witness ==
    /\ response.request.op = "download_shopping_cart"
    /\ response.request.user = "u2"
    /\ response.status = HTTP_200_OK
    /\ InCartOf("u2") = {1, 2}
    /\ RowPairs(ingredient_in_recipe, 1) = {<<1, 2>>, <<2, 4>>}
    /\ RowPairs(ingredient_in_recipe, 2) = {<<3, 6>>}
    /\ response.body.content \in {"flour (g) - 8\neggs (pcs) - 4\n",
                                  "eggs (pcs) - 4\nflour (g) - 8\n"}

C6_WitnessEmptyCart ==
    /\ response.request.op = "download_shopping_cart"
    /\ response.request.user = "u2"
    /\ response.status = HTTP_200_OK
    /\ response.body.content = ""
    /\ InCartOf("u1") = {1}

(***************************************************************************)
(* Atomicity of create (SpecConc)                                          *)
(***************************************************************************)
\* C10: recipe creation is atomic: no reader is ever shown, and the store
\* never holds, a Recipe row without the IngredientInRecipe rows and the tag
\* links submitted with it (every accepted payload carries at least one of
\* each).
C10_CreateIsAtomic ==
    /\ \A w \in Workers :
          (thread[w].request.op = "retrieve"
              /\ thread[w].status = HTTP_200_OK)
          => /\ thread[w].body.ingredients # {}
             /\ thread[w].body.tags # {}
    /\ \A pk \in DOMAIN recipe :
          (\A w \in Workers : thread[w].pk # pk) =>
             /\ RowsOf(ingredient_in_recipe, pk) # {}
             /\ TagsOf(recipe_tags, pk) # {}

(***************************************************************************)
(* Concurrent relation adds (SpecRace)                                     *)
(***************************************************************************)
AddOps == {"add_to_favorite", "add_to_shopping_cart", "subscribe"}

\* two workers have answered add requests of one pair, and both passed the
\* pre-check: one inserted the row, the other ran its insert too
SamePairRace ==
    \E w, v \in Workers :
        /\ w # v
        /\ thread[w].request.op \in AddOps
        /\ thread[v].request = thread[w].request
        /\ thread[w].pc = "respond"
        /\ thread[v].pc = "respond"
        /\ thread[w].status = HTTP_201_CREATED
        /\ thread[v].status \notin {HTTP_400_BAD_REQUEST, HTTP_401_UNAUTHORIZED,
                                    HTTP_404_NOT_FOUND}

\* C11: whatever the interleaving of concurrent add requests, Favorite,
\* ShoppingCart and Subscription each hold at most one row per (user, target)
\* pair in every reachable state.
C11_AtMostOneRowPerPair ==
    /\ \A row \in BagToSet(favorite) : CopiesIn(row, favorite) <= 1
    /\ \A row \in BagToSet(shopping_cart) : CopiesIn(row, shopping_cart) <= 1
    /\ \A row \in BagToSet(subscription) : CopiesIn(row, subscription) <= 1

\* two adds of one favorite pair both passed the pre-check and both ran their
\* insert; the table holds one row of the pair
C11_Witness ==
    /\ SamePairRace
    /\ \E w \in Workers :
          /\ thread[w].request.op = "add_to_favorite"
          /\ thread[w].status = HTTP_500_INTERNAL_SERVER_ERROR
          /\ CopiesIn(RecipeRow(thread[w].request), favorite) = 1
    /\ BagCardinality(shopping_cart) >= 1

\* C12: an add whose insert the store's uniqueness constraint rejects, after
\* a concurrent add of the same pair passed the pre-check as well, is answered
\* with the conflict error (400) of a sequential duplicate add, and never with
\* an unhandled failure (500).
C12_RaceAnsweredAsConflict ==
    \A w \in Workers :
        (thread[w].request.op \in AddOps /\ thread[w].pc = "respond")
        => thread[w].status \in {HTTP_201_CREATED, HTTP_400_BAD_REQUEST,
                                 HTTP_401_UNAUTHORIZED, HTTP_404_NOT_FOUND}

(***************************************************************************)
(* Partial update and permissions (Spec)                                   *)
(***************************************************************************)
\* C13: a PATCH by the author whose payload omits the ingredients key, the
\* tags key or both, and whose present fields are valid, succeeds (200),
\* leaves the IngredientInRecipe rows as they were when ingredients is
\* omitted, the tag links as they were when tags is omitted, and the Recipe
\* row as it was when cooking_time is omitted.
C13_PartialUpdateKeepsOmitted ==
    [][(/\ Handled
        /\ request.op = "update"
        /\ request.partial
        /\ request.pk \in DOMAIN recipe
        /\ recipe[request.pk].author = request.user
        /\ \/ "ingredients" \notin request.data.keys
           \/ "tags" \notin request.data.keys
        /\ FieldErrors(request.data, TRUE) = {})
       => /\ response'.status = HTTP_200_OK
          /\ "ingredients" \notin request.data.keys =>
                RowsOf(ingredient_in_recipe', request.pk)
                    = RowsOf(ingredient_in_recipe, request.pk)
          /\ "tags" \notin request.data.keys =>
                TagsOf(recipe_tags', request.pk)
                    = TagsOf(recipe_tags, request.pk)
          /\ "cooking_time" \notin request.data.keys =>
                recipe'[request.pk] = recipe[request.pk]]_vars

\* a recipe's row, ingredient rows or tag links differ after the step, or the
\* recipe is gone
Touched(pk) ==
    \/ pk \notin DOMAIN recipe'
    \/ recipe'[pk] # recipe[pk]
    \/ RowsOf(ingredient_in_recipe', pk) # RowsOf(ingredient_in_recipe, pk)
    \/ TagsOf(recipe_tags', pk) # TagsOf(recipe_tags, pk)

\* C14: an update or delete of a recipe by an authenticated user who is not
\* its author is answered 403 and leaves every table as it was; and a step
\* that changes a recipe's row, ingredient rows or tag links, or deletes the
\* recipe, is the handling of an update or delete request of its author.
C14_OnlyAuthorWrites ==
    [][/\ (/\ Handled
           /\ request.op \in {"update", "destroy"}
           /\ request.user \in Users
           /\ request.pk \in DOMAIN recipe
           /\ recipe[request.pk].author # request.user)
          => /\ response'.status = HTTP_403_FORBIDDEN
             /\ UNCHANGED db
       /\ \A pk \in DOMAIN recipe :
             Touched(pk) =>
                /\ Handled
                /\ request.op \in {"update", "destroy"}
                /\ request.pk = pk
                /\ request.user = recipe[pk].author]_vars

C14_Witness ==
    /\ response.request.op = "destroy"
    /\ response.status = HTTP_403_FORBIDDEN
    /\ response.request.pk \in DOMAIN recipe
    /\ recipe[response.request.pk].author = "u1"
    /\ response.request.user = "u2"
    /\ \E pk \in DOMAIN recipe : recipe[pk].author = "u2"

C14_WitnessUpdate ==
    /\ response.request.op = "update"
    /\ response.status = HTTP_403_FORBIDDEN
    /\ Errors(response.request.data, response.request.partial) = {}
    /\ recipe[response.request.pk].author # response.request.user

\* the routes that need a logged-in caller
AuthRequiredOps ==
    {"create", "update", "destroy", "add_to_favorite", "remove_from_favorite",
     "add_to_shopping_cart", "remove_from_shopping_cart", "subscribe",
     "unsubscribe", "download_shopping_cart"}

\* C15: every request of an anonymous caller to a route that needs a
\* logged-in identity, the download of the shopping list included, is
\* answered 401 and leaves every table as it was.
C15_AnonymousGets401 ==
    [][(/\ Handled
        /\ request.user = Anonymous
        /\ request.op \in AuthRequiredOps)
       => /\ response'.status = HTTP_401_UNAUTHORIZED
          /\ UNCHANGED db]_vars

\* a payload field present and empty
EmptyList(data) ==
    \/ "ingredients" \in data.keys /\ Len(data.ingredients) = 0
    \/ "tags" \in data.keys /\ Len(data.tags) = 0

\* C16: every Recipe row has at least one tag link and at least one
\* IngredientInRecipe row in every state reached by create, update and delete
\* requests, and a create or update whose payload has an empty ingredients
\* list or an empty tags list is never answered with success (400 once the
\* caller is known to be allowed to write).
C16_AtLeastOneTagAndIngredient ==
    LET req == response.request
    IN  /\ \A pk \in DOMAIN recipe :
              /\ Cardinality(RowsOf(ingredient_in_recipe, pk)) >= 1
              /\ Cardinality(TagsOf(recipe_tags, pk)) >= 1
        /\ (req.op \in {"create", "update"} /\ EmptyList(req.data)) =>
              /\ response.status \in {HTTP_400_BAD_REQUEST,
                                      HTTP_401_UNAUTHORIZED,
                                      HTTP_403_FORBIDDEN, HTTP_404_NOT_FOUND}
              /\ (req.op = "create" /\ req.user \in Users) =>
                    response.status = HTTP_400_BAD_REQUEST

C16_Witness ==
    /\ response.request.op = "update"
    /\ response.status = HTTP_400_BAD_REQUEST
    /\ "tags" \in response.request.data.keys
    /\ Len(response.request.data.tags) = 0
    /\ Cardinality(DOMAIN recipe) = MaxRecipes
    /\ \E pk \in DOMAIN recipe : Cardinality(TagsOf(recipe_tags, pk)) = 1

C16_WitnessUpdated ==
    /\ response.request.op = "update"
    /\ response.status = HTTP_200_OK
    /\ Cardinality(TagsOf(recipe_tags, response.request.pk)) = 1
    /\ Cardinality(RowsOf(ingredient_in_recipe, response.request.pk)) = 1

\* a payload that breaks a validation rule: a required key missing from a
\* full write, an empty or repeating ingredients or tags list, an unknown
\* ingredient or tag id, an amount or cooking_time outside [1, 32000]
InvalidPayload(data, partial) ==
    \/ ~partial /\ \E f \in {"ingredients", "tags", "cooking_time"} :
                      f \notin data.keys
    \/ /\ "ingredients" \in data.keys
       /\ \/ Len(data.ingredients) = 0
          \/ RepeatsAnId(data.ingredients)
          \/ \E k \in DOMAIN data.ingredients :
                \/ data.ingredients[k].id \notin IngredientIds
                \/ data.ingredients[k].amount \notin 1..32000
    \/ /\ "tags" \in data.keys
       /\ \/ Len(data.tags) = 0
          \/ \E i, j \in DOMAIN data.tags : i # j /\ data.tags[i] = data.tags[j]
          \/ \E k \in DOMAIN data.tags : data.tags[k] \notin TagIds
    \/ "cooking_time" \in data.keys /\ data.cooking_time \notin 1..32000

\* the caller may write: authenticated, and for an update the author of an
\* existing recipe
MayWrite(req) ==
    /\ req.user \in Users
    /\ req.op = "update" =>
          /\ req.pk \in DOMAIN recipe
          /\ recipe[req.pk].author = req.user

\* C17: a create or update that is answered with a validation error, and
\* every create or update of a caller allowed to write whose payload breaks
\* a validation rule, is answered 400 and leaves the Recipe rows, the
\* IngredientInRecipe rows and the tag links exactly as they were.
C17_ValidationBeforeMutation ==
    [][(/\ Handled
        /\ request.op \in {"create", "update"}
        /\ \/ response'.status = HTTP_400_BAD_REQUEST
           \/ MayWrite(request)
                /\ InvalidPayload(request.data, request.partial))
       => /\ response'.status = HTTP_400_BAD_REQUEST
          /\ response'.errors # {}
          /\ UNCHANGED <<recipe, ingredient_in_recipe, recipe_tags,
                         next_pk>>]_vars

C17_Witness ==
    /\ response.request.op = "update"
    /\ response.status = HTTP_400_BAD_REQUEST
    /\ response.errors = {"ingredients"}
    /\ Len(response.request.data.ingredients) = 1
    /\ response.request.data.ingredients[1].id = UnknownIngredient
    /\ Cardinality(RowsOf(ingredient_in_recipe, response.request.pk)) = 2
    /\ Cardinality(DOMAIN recipe) = MaxRecipes

C17_WitnessCreate ==
    /\ response.request.op = "create"
    /\ response.status = HTTP_400_BAD_REQUEST
    /\ response.errors = {"cooking_time"}
    /\ next_pk = 2

(***************************************************************************)
(* Order of the shopping list (SpecOrder)                                  *)
(***************************************************************************)
\* C18: two downloads that read the same cart recipes and the same
\* IngredientInRecipe rows are answered with the same sequence of lines, not
\* only the same set of lines.
C18_SameOrderForSameCart ==
    \A w, v \in Workers :
        (/\ thread[w].request.op = "download_shopping_cart"
         /\ thread[v].request.op = "download_shopping_cart"
         /\ thread[w].status = HTTP_200_OK
         /\ thread[v].status = HTTP_200_OK
         /\ thread[w].body.recipes = thread[v].body.recipes
         /\ thread[w].body.ingredients = thread[v].body.ingredients)
        => /\ Range(thread[w].body.lines) = Range(thread[v].body.lines)
           /\ thread[w].body.lines = thread[v].body.lines

(***************************************************************************)
(* Listing by author and tags (SpecFilter)                                 *)
(***************************************************************************)
\* the recipes a listing with these parameters is to return
Matching(author, slugs) ==
    {pk \in DOMAIN recipe :
        /\ author # NoneValue => recipe[pk].author = author
        /\ slugs # <<>> =>
              \E t \in TagsOf(recipe_tags, pk) :
                 \E k \in DOMAIN slugs : Tag(t).slug = slugs[k]}

\* C19: a listing whose tags parameter holds slugs of existing tags is
\* answered 200 with exactly the recipes linked to at least one of these
\* slugs, each of them once however many of the slugs it matches; with an
\* author parameter, only the recipes of that author.
C19_TagsOrAuthorFilter ==
    LET req == response.request
        q == req.query
    IN  (req.op = "list" /\ response.status # 0) =>
          /\ (\A k \in DOMAIN q.tags : q.tags[k] \in {"breakfast", "lunch"})
                => response.status = HTTP_200_OK
          /\ response.status = HTTP_200_OK =>
                /\ BagToSet(response.body) = Matching(q.author, q.tags)
                /\ \A pk \in BagToSet(response.body) :
                      CopiesIn(pk, response.body) = 1

C19_Witness ==
    /\ response.request.op = "list"
    /\ response.status = HTTP_200_OK
    /\ response.request.query.tags = <<"breakfast", "lunch">>
    /\ response.request.query.author = NoneValue
    /\ BagToSet(response.body) = {1, 2}
    /\ TagsOf(recipe_tags, 1) = {1, 2}
    /\ TagsOf(recipe_tags, 2) = {2}

C19_WitnessOneSlug ==
    /\ response.request.op = "list"
    /\ response.status = HTTP_200_OK
    /\ response.request.query.tags = <<"breakfast">>
    /\ BagToSet(response.body) = {1}
    /\ TagsOf(recipe_tags, 1) = {1, 2}
    /\ TagsOf(recipe_tags, 2) = {2}

C19_WitnessAuthor ==
    /\ response.request.op = "list"
    /\ response.status = HTTP_200_OK
    /\ response.request.query.author = "u2"
    /\ response.request.query.tags = <<"lunch">>
    /\ BagToSet(response.body) = {2}
    /\ recipe[1].author = "u1"
    /\ TagsOf(recipe_tags, 1) = {2}

(***************************************************************************)
(* Concurrent updates of one recipe (SpecUpdate)                           *)
(***************************************************************************)
\* C20: when two updates of one recipe, both carrying an ingredients list
\* and both accepted, have run on two workers, neither ends in an unhandled
\* failure and the IngredientInRecipe rows of the recipe are exactly the
\* list of one of the two, never rows of both and never no row.
C20_ConcurrentUpdatesOneWins ==
    \A w, v \in Workers :
        (/\ w # v
         /\ thread[w].request.op = "update"
         /\ thread[v].request.op = "update"
         /\ thread[w].request.pk = thread[v].request.pk
         /\ thread[w].pc = "respond"
         /\ thread[v].pc = "respond"
         /\ thread[w].status \in {HTTP_200_OK, HTTP_500_INTERNAL_SERVER_ERROR}
         /\ thread[v].status \in {HTTP_200_OK, HTTP_500_INTERNAL_SERVER_ERROR})
        => /\ thread[w].status = HTTP_200_OK
           /\ thread[v].status = HTTP_200_OK
           /\ RowPairs(ingredient_in_recipe, thread[w].request.pk)
                 \in {Pairs(thread[w].request.data.ingredients),
                      Pairs(thread[v].request.data.ingredients)}

(***************************************************************************)
(* Registration (SpecUser)                                                 *)
(***************************************************************************)
\* C21: after a user-create request has been answered with 201, the User
\* table holds a row with the submitted email and username.
C21_CreatedUserIsPersisted ==
    (response.request.op = "user_create"
        /\ response.status = HTTP_201_CREATED)
    => \E row \in users_user :
          /\ row.email = response.request.data.email
          /\ row.username = response.request.data.username

(***************************************************************************)
(* Alternation of adds and removes (SpecAlternate)                         *)
(***************************************************************************)
RemoveOps == {"remove_from_favorite", "remove_from_shopping_cart",
              "unsubscribe"}

\* the number of rows of the pair of request req, in the table of its
\* relation taken from the three tables given
RowsOfPair(req, favorites, cart, subscriptions) ==
    CASE req.op \in {"add_to_favorite", "remove_from_favorite"} ->
            CopiesIn(RecipeRow(req), favorites)
      [] req.op \in {"add_to_shopping_cart", "remove_from_shopping_cart"} ->
            CopiesIn(RecipeRow(req), cart)
      [] req.op \in {"subscribe", "unsubscribe"} ->
            CopiesIn(AuthorRow(req), subscriptions)

\* C22: in each relation and for each pair, under every interleaving, the
\* step that ends an add in success (201) takes the pair from absent to
\* present and the step that ends a remove in success (204) takes it from
\* present to absent, so that successful adds and removes alternate; of two
\* concurrent removes of a present row at most one is a success, and a
\* remove that finds the row gone is answered 400.
C22_AddsAndRemovesAlternate ==
    [][\A w \in Workers :
          (/\ thread[w].pc # "respond"
           /\ thread'[w].pc = "respond"
           /\ thread[w].request.op \in AddOps \cup RemoveOps)
          => LET req == thread[w].request
                 before == RowsOfPair(req, favorite, shopping_cart,
                                      subscription)
                 after == RowsOfPair(req, favorite', shopping_cart',
                                     subscription')
             IN  /\ (req.op \in AddOps
                        /\ thread'[w].status = HTTP_201_CREATED)
                    => before = 0 /\ after = 1
                 /\ (req.op \in RemoveOps
                        /\ thread'[w].status = HTTP_204_NO_CONTENT)
                    => before = 1 /\ after = 0
                 /\ (req.op \in RemoveOps /\ thread[w].pc = "delete"
                        /\ before = 0)
                    => thread'[w].status = HTTP_400_BAD_REQUEST]_vars

====
